---- MODULE Spec2Model ----
(***************************************************************************)
(* Model of Autocare_API_Browse.py: the token lifecycle (load, validate,   *)
(* acquire, save), the catalog requests, the interactive menu and the      *)
(* pagination loop of download_table, as one run of the __main__ block.    *)
(***************************************************************************)
EXTENDS Integers, Sequences, FiniteSets, TLC

(***************************************************************************)
(* Bounds of the model.                                                    *)
(***************************************************************************)
\* Clock values are seconds 0..MaxTime.
MaxTime == 2
\* Longest line the user types at a prompt, in characters.
MaxInputLen == 2
\* Largest number of GET requests one download_table call issues in the model.
MaxPages == 3
\* Number of nested display_menu_and_choose frames the interpreter allows
\* before it raises RecursionError.  CPython's default limit is 1000; the
\* model scales it down, the behaviour at the limit is the same.
RecursionLimit == 3
\* Runs of the program, one after the other.
MaxRuns == 2

(***************************************************************************)
(* JSON values and the token record.                                       *)
(* A JSON value is a string or a number.  The text of a string is either a *)
(* plain word (s), or the ISO-8601 text of the instant n (s = "iso").      *)
(* A dict over the keys of a token record maps an absent key to Missing.   *)
(***************************************************************************)
Keys == <<"access_token", "token_type", "expires_in", "expiration_time">>
KeySet == {Keys[i] : i \in 1..Len(Keys)}

Missing == [kind |-> "missing", s |-> "", n |-> 0]
JStr(w) == [kind |-> "str", s |-> w, n |-> 0]
JNum(k) == [kind |-> "num", s |-> "", n |-> k]

\* datetime.isoformat(): the ISO text of instant t.
isoformat(t) == [kind |-> "str", s |-> "iso", n |-> t]

\* datetime.fromisoformat(v): the instant, or ValueError / TypeError.
fromisoformat(v) ==
    IF v.kind = "str" /\ v.s = "iso"
    THEN [ok |-> TRUE, t |-> v.n, exc |-> "none"]
    ELSE IF v.kind = "str"
         THEN [ok |-> FALSE, t |-> 0, exc |-> "ValueError"]
         ELSE [ok |-> FALSE, t |-> 0, exc |-> "TypeError"]

EmptyDict == [k \in KeySet |-> Missing]
\* Python's None and a dict, as the values of token_data.
None == [present |-> FALSE, d |-> EmptyDict]
Dict(d) == [present |-> TRUE, d |-> d]
Has(td, k) == td.present /\ td.d[k].kind # "missing"
\* Python truthiness of token_data: None and {} are falsy.
Truthy(td) == td.present /\ \E k \in KeySet : td.d[k].kind # "missing"

(***************************************************************************)
(* json.dump / json.load on the token file.  The file content is a         *)
(* sequence of tokens: "{", one token per key/value pair, "}"; or "null".  *)
(***************************************************************************)
Tok(t, k, v) == [tok |-> t, key |-> k, val |-> v]
LBrace == Tok("{", "", Missing)
RBrace == Tok("}", "", Missing)
NullTok == Tok("null", "", Missing)

RECURSIVE DumpPairs(_, _)
DumpPairs(d, i) ==
    IF i > Len(Keys) THEN <<>>
    ELSE (IF d[Keys[i]].kind = "missing" THEN <<>>
          ELSE <<Tok("pair", Keys[i], d[Keys[i]])>>) \o DumpPairs(d, i + 1)

json_dump(td) ==
    IF ~td.present THEN <<NullTok>>
    ELSE <<LBrace>> \o DumpPairs(td.d, 1) \o <<RBrace>>

RECURSIVE LoadPairs(_, _, _)
LoadPairs(content, i, d) ==
    IF i >= Len(content) THEN d
    ELSE LoadPairs(content, i + 1,
                   [d EXCEPT ![content[i].key] = content[i].val])

\* json.load: the value, or JSONDecodeError for text that is no JSON document.
json_load(content) ==
    IF content = <<NullTok>> THEN [ok |-> TRUE, val |-> None]
    ELSE IF /\ Len(content) >= 2
            /\ content[1] = LBrace
            /\ content[Len(content)] = RBrace
            /\ \A i \in 2..(Len(content) - 1) :
                   content[i].tok = "pair" /\ content[i].key \in KeySet
         THEN [ok |-> TRUE, val |-> Dict(LoadPairs(content, 2, EmptyDict))]
         ELSE [ok |-> FALSE, val |-> None]

\* A file on disk: absent, or present with its content.
NoFile == [exists |-> FALSE, content |-> <<>>]
File(c) == [exists |-> TRUE, content |-> c]

\* A save that opens the file for appending.
save_token_appending(td, file) == File(file.content \o json_dump(td))

\* save_token_to_file: open(file_path, "w") truncates, json.dump writes.
save_token_to_file(td, file) == File(json_dump(td))

\* load_token_from_file: None for a missing or empty file, else json.load.
load_token_from_file(file) ==
    IF ~file.exists \/ Len(file.content) = 0
    THEN [ok |-> TRUE, val |-> None]
    ELSE json_load(file.content)

\* A validity check that still accepts a token at the instant it expires.
is_token_valid_at_expiry(td, t) ==
    IF ~Truthy(td) \/ ~Has(td, "expiration_time") THEN "False"
    ELSE LET e == fromisoformat(td.d["expiration_time"])
         IN  IF ~e.ok THEN e.exc
             ELSE IF t <= e.t THEN "True" ELSE "False"

\* is_token_valid at clock value t: "True", "False", or the exception raised.
is_token_valid(td, t) ==
    IF ~Truthy(td) \/ ~Has(td, "expiration_time") THEN "False"
    ELSE LET e == fromisoformat(td.d["expiration_time"])
         IN  IF ~e.ok THEN e.exc
             ELSE IF t < e.t THEN "True" ELSE "False"

(***************************************************************************)
(* Text typed at a prompt: a sequence of characters.                       *)
(***************************************************************************)
Chars == {" ", "q", "Q", "x", "-", "0", "1", "2"}
Digits == {"0", "1", "2"}

RECURSIVE SeqsUpTo(_)
SeqsUpTo(n) ==
    IF n = 0 THEN {<<>>}
    ELSE LET shorter == SeqsUpTo(n - 1)
         IN  shorter \cup {Append(w, c) : w \in {x \in shorter : Len(x) = n - 1},
                                          c \in Chars}
Inputs == SeqsUpTo(MaxInputLen)

\* str.strip(): leading and trailing blanks removed.
RECURSIVE LStrip(_)
LStrip(w) == IF w # <<>> /\ Head(w) = " " THEN LStrip(Tail(w)) ELSE w
RECURSIVE RStrip(_)
RStrip(w) ==
    IF w # <<>> /\ w[Len(w)] = " " THEN RStrip(SubSeq(w, 1, Len(w) - 1)) ELSE w
Strip(w) == RStrip(LStrip(w))

\* str.lower()
LowerChar(c) == IF c = "Q" THEN "q" ELSE c
Lower(w) == [i \in 1..Len(w) |-> LowerChar(w[i])]

DigitVal(c) == CASE c = "0" -> 0 [] c = "1" -> 1 [] c = "2" -> 2 [] OTHER -> 0

RECURSIVE DigitsVal(_)
DigitsVal(w) ==
    IF w = <<>> THEN 0
    ELSE 10 * DigitsVal(SubSeq(w, 1, Len(w) - 1)) + DigitVal(w[Len(w)])

AllDigits(w) == w # <<>> /\ \A i \in 1..Len(w) : w[i] \in Digits

\* int(text): an optional sign and decimal digits, else ValueError.
ParseInt(w) ==
    IF AllDigits(w) THEN [ok |-> TRUE, v |-> DigitsVal(w)]
    ELSE IF w # <<>> /\ Head(w) = "-" /\ AllDigits(Tail(w))
         THEN [ok |-> TRUE, v |-> 0 - DigitsVal(Tail(w))]
         ELSE [ok |-> FALSE, v |-> 0]

\* A menu that takes only the lower-case "q" as the quit token.
MenuOutcomeLowerCaseOnly(data, line) ==
    LET choice == Strip(line)
        p == ParseInt(choice)
    IN  IF choice = <<"q">> THEN [act |-> "quit", idx |-> 0]
        ELSE IF ~p.ok THEN [act |-> "again", idx |-> 0]
        ELSE IF 0 <= p.v - 1 /\ p.v - 1 < Len(data)
             THEN [act |-> "return", idx |-> p.v - 1]
             ELSE [act |-> "again", idx |-> 0]

\* The outcome of one frame of display_menu_and_choose on the line typed:
\* "quit" (exit(0)), "return" with the chosen index, or "again" (the frame
\* calls display_menu_and_choose once more).
MenuOutcome(data, line) ==
    LET choice == Strip(line)
        p == ParseInt(choice)
    IN  IF Lower(choice) = <<"q">> THEN [act |-> "quit", idx |-> 0]
        ELSE IF ~p.ok THEN [act |-> "again", idx |-> 0]
        ELSE IF 0 <= p.v - 1 /\ p.v - 1 < Len(data)
             THEN [act |-> "return", idx |-> p.v - 1]
             ELSE [act |-> "again", idx |-> 0]

(***************************************************************************)
(* The servers and the disk, as seen by one run.                           *)
(***************************************************************************)
\* Token records a token file may hold when the run starts.
StoredDicts ==
    {[access_token |-> a, token_type |-> m[1], expires_in |-> m[2],
      expiration_time |-> e] :
        a \in {Missing, JStr("S")},
        m \in {<<Missing, Missing>>, <<JStr("Bearer"), JNum(1)>>},
        e \in {Missing, JStr("garbage"), JNum(1)}
              \cup {isoformat(t) : t \in 0..MaxTime}}

\* Token files at the start of a run: none, empty, a record, no JSON at all.
TokenFiles ==
    {NoFile, File(<<>>), File(<<RBrace>>)}
        \cup {File(json_dump(Dict(d))) : d \in StoredDicts}

\* JSON objects the identity endpoint may send with a 200 answer that
\* carries a token: with or without token_type and expires_in.
IdBodies ==
    {[EmptyDict EXCEPT !["access_token"] = JStr("N"),
                       !["token_type"] = m[1],
                       !["expires_in"] = m[2]] :
        m \in {<<Missing, Missing>>, <<JStr("Bearer"), JNum(1)>>,
               <<JStr("Bearer"), JNum(2)>>}}

\* Answers of the identity endpoint (POST connect/token): 200 with a token,
\* 200 without one, another status, or no answer because TLS failed.  An
\* answer has a status code, a reason phrase and a body.
IdResponses ==
    {[kind |-> "http", status |-> 200, reason |-> "OK", body |-> b] :
        b \in IdBodies}
    \cup {[kind |-> "http", status |-> 200, reason |-> "OK",
           body |-> [EmptyDict EXCEPT !["expires_in"] = JNum(1)]]}
    \cup {[kind |-> "http", status |-> 400, reason |-> "Bad Request",
           body |-> EmptyDict],
          [kind |-> "http", status |-> 500, reason |-> "",
           body |-> EmptyDict]}
    \cup {[kind |-> "ssl", status |-> 0, reason |-> "", body |-> EmptyDict]}

\* Statuses other than 200 a catalog or table request may get.
ErrorStatuses == {401, 500}

DbLists == {<<>>, <<"VCdb">>, <<"VCdb", "PCdb">>}
TableLists == {<<>>, <<"Make">>, <<"Make", "Model">>}
\* str.lower() on a database name.
LowerName(n) == CASE n = "VCdb" -> "vcdb" [] n = "PCdb" -> "pcdb" [] OTHER -> n

\* URLs.  NoUrl is Python's None, EmptyUrl the empty string.
Url(k, h, a, b) == [kind |-> k, host |-> h, a |-> a, b |-> b]
NoUrl == Url("none", "", "", "")
EmptyUrl == Url("empty", "", "", "")
DatabasesUrl == Url("databases", "common", "", "")
TablesUrl(db) == Url("tables", "common", db, "")
TableUrl(db, tb) == Url("table", LowerName(db), db, tb)
LinkUrl(l) == Url("link", "", l, "")
UrlTruthy(u) == u.kind \notin {"none", "empty"}

\* Record arrays a page may carry, and the next-page links a server may name.
PageBodies == {<<>>, <<"b">>, <<"a", "b">>}
NextLinks == {"L1", "L2"}
\* The X-Pagination header: absent, an object without nextPageLink, or an
\* object whose nextPageLink is the empty string or a link.
PageHeaders ==
    {[present |-> FALSE, next |-> NoUrl], [present |-> TRUE, next |-> NoUrl],
     [present |-> TRUE, next |-> EmptyUrl]}
        \cup {[present |-> TRUE, next |-> LinkUrl(l)] : l \in NextLinks}
PageResponses ==
    {[status |-> 200, body |-> b, header |-> h] :
        b \in PageBodies, h \in PageHeaders}
    \cup {[status |-> st, body |-> <<>>, header |-> [present |-> FALSE, next |-> NoUrl]] :
            st \in ErrorStatuses}

NoResp == [kind |-> "none", status |-> 0, reason |-> "", body |-> EmptyDict]
NoLine == [got |-> FALSE, s |-> <<>>]
\* An error: where it was raised, and what its message carries of the failed
\* response (the status code, 0 for none; the reason phrase; the body).
NoErr == [op |-> "none", status |-> 0, reason |-> FALSE, body |-> FALSE]
NoOut == [written |-> FALSE, name |-> <<>>, content |-> <<>>]
\* No token has been issued to this program yet.
NoIssue == [at |-> 0, run |-> 0]

(***************************************************************************)
(* State of one run of the __main__ block.                                 *)
(***************************************************************************)
VARIABLES
    pc,                 \* position in the __main__ block
    now,                \* the wall clock, in seconds
    tokenFile,          \* token.txt on disk
    token_data,         \* the variable token_data
    valid,              \* what is_token_valid gave: "True", "False", an exception, "unset"
    token,              \* the variable token (the bearer string), "" before it is set
    idCalls,            \* POST requests made to the identity endpoint
    idResp,             \* the identity endpoint's answer, NoResp before it is asked
    saved,              \* the record last handed to save_token_to_file
    gets,               \* GET requests issued so far: <<url, bearer>> each
    database_names,     \* the variable database_names
    selected_database,  \* the variable selected_database
    tables,             \* the variable tables
    selected_table,     \* the variable selected_table
    depth,              \* nested display_menu_and_choose frames
    line,               \* what input() returned in the innermost frame
    api_url,            \* download_table: the variable api_url
    all_records,        \* download_table: the variable all_records
    resps,              \* the responses download_table received, in arrival order
    outFile,            \* the output file {database}_{table}.json as this run wrote it
    outWrites,          \* times the output file has been opened for writing
    exitCode,           \* process exit code, -1 while the process runs
    how,                \* how the process ended
    err,                \* the error the run ended with
    run,                \* which run of the program this is, counted from 1
    issue               \* clock and run of the last token acquired and saved

vars == <<pc, now, tokenFile, token_data, valid, token, idCalls, gets,
          database_names, selected_database, tables, selected_table, depth,
          line, api_url, all_records, resps, outFile, outWrites,
          exitCode, how, err, idResp, saved, run, issue>>

tokenVars == <<tokenFile, token_data, valid, token, idCalls, idResp, saved,
               issue>>
menuVars == <<database_names, selected_database, tables, selected_table,
              depth, line>>
loadVars == <<api_url, all_records, resps, outFile, outWrites>>
endVars == <<exitCode, how, err, run>>

Init ==
    /\ pc = "load"
    /\ now \in 0..MaxTime
    /\ tokenFile \in TokenFiles
    /\ token_data = None
    /\ valid = "unset"
    /\ token = ""
    /\ idCalls = 0
    /\ idResp = NoResp
    /\ saved = None
    /\ gets = <<>>
    /\ database_names = <<>>
    /\ selected_database = ""
    /\ tables = <<>>
    /\ selected_table = ""
    /\ depth = 0
    /\ line = NoLine
    /\ api_url = NoUrl
    /\ all_records = <<>>
    /\ resps = <<>>
    /\ outFile = NoOut
    /\ outWrites = 0
    /\ exitCode = -1
    /\ how = "running"
    /\ err = NoErr
    /\ run = 1
    /\ issue = NoIssue

(***************************************************************************)
(* TokenService.get_bearer_token                                           *)
(***************************************************************************)
\* token_data.get("expires_in", 3600)
DefaultExpiresIn == 3600

\* A token whose lifetime is the default whatever the server says.
LifetimeAlwaysDefault(body) == DefaultExpiresIn

\* Line 87: expires_in = token_data.get("expires_in", 3600)
Lifetime(body) ==
    IF body["expires_in"].kind = "missing"
    THEN DefaultExpiresIn ELSE body["expires_in"].n

\* What get_bearer_token returns or raises for the answer resp, read at clock t.
\* Line 95 puts response.reason and response.text in the message, not the
\* status code.
get_bearer_token(resp, t) ==
    IF resp.kind = "ssl"
    THEN [ok |-> FALSE, val |-> None,
          err |-> [op |-> "token_ssl", status |-> 0, reason |-> FALSE,
                   body |-> FALSE]]
    ELSE IF resp.status = 200
    THEN IF resp.body["access_token"].kind # "missing"
         THEN [ok |-> TRUE,
               val |-> Dict([resp.body EXCEPT !["expiration_time"] =
                                isoformat(t + Lifetime(resp.body))]),
               err |-> NoErr]
         ELSE [ok |-> FALSE, val |-> None,
               err |-> [op |-> "token_missing", status |-> 0,
                        reason |-> FALSE, body |-> FALSE]]
    ELSE [ok |-> FALSE, val |-> None,
          err |-> [op |-> "token_status", status |-> 0, reason |-> TRUE,
                   body |-> TRUE]]

(***************************************************************************)
(* How the process ends.                                                   *)
(***************************************************************************)
Exit(code, h, e) ==
    /\ pc' = "done"
    /\ exitCode' = code
    /\ how' = h
    /\ err' = e
    /\ run' = run

\* An exception no handler catches: the interpreter prints the traceback and
\* the process ends with status 1.
Unhandled(exc) ==
    Exit(1, "unhandled",
         [op |-> exc, status |-> 0, reason |-> FALSE, body |-> FALSE])

\* A handler that prints the error and lets the script go on.
AuthFailedGoesOn(e) == pc' = "token" /\ UNCHANGED endVars

\* Lines 219-221: the handler around get_bearer_token prints and calls exit(1).
AuthFailed(e) == Exit(1, "auth_failed", e)

\* A handler that answers a failed request by asking for a new token.
FailedRefreshesToken(e) == pc' = "acquire" /\ UNCHANGED endVars

\* Lines 239-240: the handler around the catalog and download steps prints
\* the error; the script then ends, so the process ends with status 0.
Failed(e) == Exit(0, "error", e)

\* Lines 186-188: exit(0) raises SystemExit, which `except Exception` does
\* not catch.
Quit == Exit(0, "quit", NoErr)

\* The script runs off its last line.
Completed == Exit(0, "completed", NoErr)

(***************************************************************************)
(* The token steps of __main__, lines 211-225.                             *)
(***************************************************************************)
\* Line 211: token_data = load_token_from_file(token_file_path)
LoadToken ==
    /\ pc = "load"
    /\ LET r == load_token_from_file(tokenFile)
       IN  IF r.ok
           THEN /\ token_data' = r.val
                /\ pc' = "validate"
                /\ UNCHANGED endVars
           ELSE /\ token_data' = token_data
                /\ Unhandled("JSONDecodeError")
    /\ UNCHANGED <<now, tokenFile, valid, token, idCalls, idResp, saved,
                   issue, gets>>
    /\ UNCHANGED <<menuVars, loadVars>>

\* Line 213: if not is_token_valid(token_data)
ValidateToken ==
    /\ pc = "validate"
    /\ LET v == is_token_valid(token_data, now)
       IN  /\ valid' = v
           /\ IF v = "True" THEN pc' = "token" /\ UNCHANGED endVars
              ELSE IF v = "False" THEN pc' = "acquire" /\ UNCHANGED endVars
              ELSE Unhandled(v)
    /\ UNCHANGED <<now, tokenFile, token_data, token, idCalls, idResp, saved,
                   issue, gets>>
    /\ UNCHANGED <<menuVars, loadVars>>

\* Lines 214-221: get_bearer_token, then save_token_to_file, or exit(1).
AcquireToken ==
    /\ pc = "acquire"
    /\ \E resp \in IdResponses, t \in now..MaxTime :
         LET r == get_bearer_token(resp, t)
         IN  /\ now' = t
             /\ idCalls' = idCalls + 1
             /\ idResp' = resp
             /\ IF r.ok
                THEN /\ token_data' = r.val
                     /\ tokenFile' = save_token_to_file(r.val, tokenFile)
                     /\ saved' = r.val
                     /\ issue' = [at |-> t, run |-> run]
                     /\ pc' = "token"
                     /\ UNCHANGED endVars
                ELSE /\ UNCHANGED <<token_data, tokenFile, saved, issue>>
                     /\ AuthFailed(r.err)
    /\ UNCHANGED <<valid, token, gets>>
    /\ UNCHANGED <<menuVars, loadVars>>

\* Line 225: token = token_data["access_token"]
UseToken ==
    /\ pc = "token"
    /\ IF Has(token_data, "access_token")
       THEN /\ token' = token_data.d["access_token"].s
            /\ pc' = "list_db"
            /\ UNCHANGED endVars
       ELSE /\ token' = token
            /\ Unhandled("KeyError")
    /\ UNCHANGED <<now, tokenFile, token_data, valid, idCalls, idResp, saved,
                   issue, gets>>
    /\ UNCHANGED <<menuVars, loadVars>>

(***************************************************************************)
(* The catalog requests, lines 118-144 and 229-233.                        *)
(***************************************************************************)
\* Lines 120-121, 134-135, 150 and 155: a GET with "Bearer {token}".
Get(url) == gets' = Append(gets, <<url, token>>)

\* Line 229-230: databases = fetch_data(api_url, token), one GET.
ListDatabases ==
    /\ pc = "list_db"
    /\ Get(DatabasesUrl)
    /\ \/ \E names \in DbLists :
            /\ database_names' = names
            /\ depth' = 1
            /\ pc' = "menu_db"
            /\ UNCHANGED endVars
       \/ \E st \in ErrorStatuses :
            /\ UNCHANGED <<database_names, depth>>
            /\ Failed([op |-> "fetch_data", status |-> st, reason |-> FALSE,
                       body |-> TRUE])
    /\ UNCHANGED <<now, selected_database, tables, selected_table, line>>
    /\ UNCHANGED <<tokenVars, loadVars>>

\* Line 233: tables = fetch_tables_for_database(selected_database, token).
ListTables ==
    /\ pc = "list_tables"
    /\ Get(TablesUrl(selected_database))
    /\ \/ \E names \in TableLists :
            /\ tables' = names
            /\ depth' = 1
            /\ pc' = "menu_table"
            /\ UNCHANGED endVars
       \/ \E st \in ErrorStatuses :
            /\ UNCHANGED <<tables, depth>>
            /\ Failed([op |-> "fetch_tables", status |-> st, reason |-> FALSE,
                       body |-> FALSE])
    /\ UNCHANGED <<now, database_names, selected_database, selected_table, line>>
    /\ UNCHANGED <<tokenVars, loadVars>>

(***************************************************************************)
(* display_menu_and_choose, lines 179-199.                                 *)
(***************************************************************************)
InMenu == pc \in {"menu_db", "menu_table"}

\* Line 184: choice = input("Your choice: ") in the innermost frame.
ReadLine ==
    /\ InMenu
    /\ ~line.got
    /\ \E s \in Inputs : line' = [got |-> TRUE, s |-> s]
    /\ UNCHANGED <<pc, now, gets, database_names, selected_database, tables,
                   selected_table, depth>>
    /\ UNCHANGED <<tokenVars, loadVars, endVars>>

\* Lines 196 and 199: return display_menu_and_choose(data, prompt).  One more
\* frame; past the interpreter's limit the call raises RecursionError, which
\* no frame of display_menu_and_choose catches and line 239 does.
CallAgain ==
    IF depth < RecursionLimit
    THEN /\ depth' = depth + 1
         /\ pc' = pc
         /\ UNCHANGED endVars
    ELSE /\ depth' = depth
         /\ Failed([op |-> "RecursionError", status |-> 0, reason |-> FALSE,
                    body |-> FALSE])

\* Lines 186-199 and 232: the database menu acts on the line read.
ChooseDatabase ==
    /\ pc = "menu_db"
    /\ line.got
    /\ line' = NoLine
    /\ LET o == MenuOutcome(database_names, line.s)
       IN  CASE o.act = "quit" ->
                  /\ Quit
                  /\ UNCHANGED <<selected_database, depth>>
             [] o.act = "return" ->
                  /\ selected_database' = database_names[o.idx + 1]
                  /\ depth' = 0
                  /\ pc' = "list_tables"
                  /\ UNCHANGED endVars
             [] OTHER ->
                  /\ CallAgain
                  /\ UNCHANGED selected_database
    /\ UNCHANGED <<now, gets, database_names, tables, selected_table>>
    /\ UNCHANGED <<tokenVars, loadVars>>

\* A first page taken from the first database listed, whichever was chosen.
InitialUrlFirstDatabase(database_name, table_name) ==
    TableUrl(database_names[1], table_name)

\* Line 236: the name of the output file, in the fixed output directory.
output_file_path(database_name, table_name) ==
    <<database_name, "_", table_name, ".json">>

\* Line 149: the first page's URL.
InitialUrl(database_name, table_name) == TableUrl(database_name, table_name)

\* Lines 186-199, 235-238 and 146-151: the table menu acts on the line read;
\* on a choice download_table is entered.
ChooseTable ==
    /\ pc = "menu_table"
    /\ line.got
    /\ line' = NoLine
    /\ LET o == MenuOutcome(tables, line.s)
       IN  CASE o.act = "quit" ->
                  /\ Quit
                  /\ UNCHANGED <<selected_table, depth, api_url>>
             [] o.act = "return" ->
                  /\ selected_table' = tables[o.idx + 1]
                  /\ depth' = 0
                  /\ api_url' = InitialUrl(selected_database, tables[o.idx + 1])
                  /\ pc' = "download"
                  /\ UNCHANGED endVars
             [] OTHER ->
                  /\ CallAgain
                  /\ UNCHANGED <<selected_table, api_url>>
    /\ UNCHANGED <<now, gets, database_names, selected_database, tables>>
    /\ UNCHANGED <<all_records, resps, outFile, outWrites>>
    /\ UNCHANGED tokenVars

(***************************************************************************)
(* download_table, lines 146-177.                                          *)
(***************************************************************************)
\* A download that puts each new page in front of the earlier ones.
ExtendInFront(records, data) == data \o records

\* Line 160: all_records.extend(data)
Extend(records, data) == records \o data

\* Lines 163-168: the URL after a 200 response, and whether the loop goes on
\* (`break` without a header, `while api_url` with one).
NextUrl(url, header) == IF header.present THEN header.next ELSE url
\* A loop that goes on whenever the header is there.
LoopGoesOnWithHeader(header) == header.present

LoopGoesOn(header) == header.present /\ UrlTruthy(header.next)

\* A download that stops at a failed page and keeps what it has so far.
PageFailedKeepsPartial(resp) == pc' = "write" /\ UNCHANGED endVars

\* Lines 169-170 and 176-177: a response other than 200 raises; the error,
\* wrapped once more, reaches the handler of line 239.
PageFailed(resp) ==
    Failed([op |-> "download_table", status |-> resp.status,
            reason |-> FALSE, body |-> TRUE])

\* GET requests download_table has issued.
PageGets == Len(gets) - 2

\* Lines 153-170: one turn of the loop.
DownloadPage ==
    /\ pc = "download"
    /\ UrlTruthy(api_url)
    /\ PageGets < MaxPages
    /\ Get(api_url)
    /\ \E resp \in PageResponses :
         /\ resps' = Append(resps, resp)
         /\ IF resp.status = 200
            THEN /\ all_records' = Extend(all_records, resp.body)
                 /\ api_url' = NextUrl(api_url, resp.header)
                 /\ pc' = IF LoopGoesOn(resp.header) THEN "download" ELSE "write"
                 /\ UNCHANGED endVars
            ELSE /\ UNCHANGED <<all_records, api_url>>
                 /\ PageFailed(resp)
    /\ UNCHANGED <<now, outFile, outWrites>>
    /\ UNCHANGED <<tokenVars, menuVars>>

\* A download that writes no file when it has no records.
WriteOutputUnlessEmpty ==
    /\ pc = "write"
    /\ IF all_records = <<>>
       THEN UNCHANGED <<outFile, outWrites>>
       ELSE /\ outFile' = [written |-> TRUE,
                           name |-> output_file_path(selected_database, selected_table),
                           content |-> all_records]
            /\ outWrites' = outWrites + 1
    /\ Completed
    /\ UNCHANGED <<now, gets, api_url, all_records, resps>>
    /\ UNCHANGED <<tokenVars, menuVars>>

\* Lines 173-175, then the end of the script.
WriteOutput ==
    /\ pc = "write"
    /\ outFile' = [written |-> TRUE,
                   name |-> output_file_path(selected_database, selected_table),
                   content |-> all_records]
    /\ outWrites' = outWrites + 1
    /\ Completed
    /\ UNCHANGED <<now, gets, api_url, all_records, resps>>
    /\ UNCHANGED <<tokenVars, menuVars>>

Next ==
    \/ LoadToken
    \/ ValidateToken
    \/ AcquireToken
    \/ UseToken
    \/ ListDatabases
    \/ ReadLine
    \/ ChooseDatabase
    \/ ListTables
    \/ ChooseTable
    \/ DownloadPage
    \/ WriteOutput

Spec == Init /\ [][Next]_vars

(***************************************************************************)
(* download_table on its own: called at line 238 with a database and a     *)
(* table chosen from the lists shown, and run to its end.                  *)
(***************************************************************************)
\* The run as it enters download_table: a stored token was found valid, the
\* two lists were fetched and a database and a table were chosen.
InitDownload ==
    /\ pc = "download"
    /\ now = 0
    /\ token_data = Dict([access_token |-> JStr("S"),
                          token_type |-> JStr("Bearer"),
                          expires_in |-> JNum(1),
                          expiration_time |-> isoformat(1)])
    /\ tokenFile = File(json_dump(token_data))
    /\ valid = "True"
    /\ token = "S"
    /\ idCalls = 0
    /\ idResp = NoResp
    /\ saved = None
    /\ database_names \in DbLists
    /\ selected_database \in {database_names[i] : i \in 1..Len(database_names)}
    /\ tables \in TableLists
    /\ selected_table \in {tables[i] : i \in 1..Len(tables)}
    /\ gets = << <<DatabasesUrl, token>>, <<TablesUrl(selected_database), token>> >>
    /\ depth = 0
    /\ line = NoLine
    /\ api_url = InitialUrl(selected_database, selected_table)
    /\ all_records = <<>>
    /\ resps = <<>>
    /\ outFile = NoOut
    /\ outWrites = 0
    /\ exitCode = -1
    /\ how = "running"
    /\ err = NoErr
    /\ run = 1
    /\ issue = NoIssue

NextDownload == DownloadPage \/ WriteOutput

\* The program's own steps are taken: a request that is due is issued and
\* answered, and the file is written once the loop has ended.  The script is
\* one thread of straight-line code, so a step that can be taken is taken;
\* nothing is assumed of what the server answers.
SpecDownload ==
    /\ InitDownload
    /\ [][NextDownload]_vars
    /\ WF_vars(DownloadPage)
    /\ WF_vars(WriteOutput)

(***************************************************************************)
(* Several runs of the program, one after the other, on the same disk.     *)
(***************************************************************************)
\* A new process is started once the one before has ended, at the same or a
\* later clock.  It finds the token file as the earlier run left it (line
\* 211); every variable of the script starts afresh, and so does the record
\* of what the run has requested and written.
StartNextRun ==
    /\ pc = "done"
    /\ run < MaxRuns
    /\ run' = run + 1
    /\ \E t \in now..MaxTime : now' = t
    /\ pc' = "load"
    /\ token_data' = None
    /\ valid' = "unset"
    /\ token' = ""
    /\ idCalls' = 0
    /\ idResp' = NoResp
    /\ gets' = <<>>
    /\ database_names' = <<>>
    /\ selected_database' = ""
    /\ tables' = <<>>
    /\ selected_table' = ""
    /\ depth' = 0
    /\ line' = NoLine
    /\ api_url' = NoUrl
    /\ all_records' = <<>>
    /\ resps' = <<>>
    /\ outFile' = NoOut
    /\ outWrites' = 0
    /\ exitCode' = -1
    /\ how' = "running"
    /\ err' = NoErr
    /\ UNCHANGED <<tokenFile, saved, issue>>

NextRuns == Next \/ StartNextRun

SpecRuns == Init /\ [][NextRuns]_vars

(***************************************************************************)
(* Properties of download_table.                                           *)
(***************************************************************************)
\* What the responses say, read off the response log alone.
CarriesLink(resp) == resp.header.present /\ resp.header.next.kind = "link"
PageUrls == [i \in 1..PageGets |-> gets[i + 2][1]]

RECURSIVE Concatenation(_)
Concatenation(rs) ==
    IF rs = <<>> THEN <<>>
    ELSE Concatenation(SubSeq(rs, 1, Len(rs) - 1)) \o rs[Len(rs)].body

\* The server has answered 200 to every request, each page but the last
\* named a next page, and the last named none.
ServedNPages ==
    /\ resps # <<>>
    /\ \A i \in 1..Len(resps) : resps[i].status = 200
    /\ \A i \in 1..(Len(resps) - 1) : CarriesLink(resps[i])
    /\ ~CarriesLink(resps[Len(resps)])

\* C1: when the server has served N >= 1 pages, each but the last with a
\* next-page link, download_table has issued exactly N GET requests, the
\* first to the table's URL and each later one to the link of the response
\* before it, it issues no more, and all_records is the concatenation of the
\* N record arrays in arrival order; and the download ends successfully only
\* when the server has served such a sequence of pages.
C1_PaginationDrainsAllPages ==
    /\ ServedNPages =>
          /\ PageGets = Len(resps)
          /\ pc \in {"write", "done"}
          /\ PageUrls[1] = TableUrl(selected_database, selected_table)
          /\ \A i \in 1..(Len(resps) - 1) : PageUrls[i + 1] = resps[i].header.next
          /\ all_records = Concatenation(resps)
          /\ how = "completed" => outFile.content = Concatenation(resps)
    /\ pc = "write" \/ how = "completed" => ServedNPages

\* Three pages, the second one empty, drained and written.
C1_Witness ==
    /\ how = "completed"
    /\ Len(resps) = 3
    /\ ServedNPages
    /\ all_records = <<"a", "b", "b">>
    /\ resps[2].body = <<>>

\* C2: a page request that gets another status than 200 ends download_table
\* with an error carrying that status, is the last request, and leaves the
\* output file unwritten; the output file is written at most once, and only
\* once the last page (a 200 response naming no next page) is accumulated.
C2_FailedPageWritesNothing ==
    /\ \A i \in 1..Len(resps) :
          resps[i].status # 200 =>
              /\ i = Len(resps)
              /\ PageGets = Len(resps)
              /\ pc = "done"
              /\ err.op = "download_table"
              /\ err.status = resps[i].status
              /\ ~outFile.written
              /\ outWrites = 0
    /\ outWrites <= 1
    /\ outFile.written <=> outWrites = 1
    /\ outFile.written =>
          /\ ServedNPages
          /\ outFile.content = Concatenation(resps)

\* The third request of a download fails with 500 after two good pages.
C2_Witness ==
    /\ Len(resps) = 3
    /\ resps[1].body = <<"a", "b">>
    /\ resps[3].status = 500
    /\ pc = "done"

(***************************************************************************)
(* Properties of the token steps.                                          *)
(***************************************************************************)
\* The run has just evaluated is_token_valid: token_data is still the record
\* that was loaded and the clock is the one the check read.
JustValidated ==
    /\ valid # "unset"
    /\ idCalls = 0
    /\ \/ pc \in {"acquire", "token"}
       \/ (how = "unhandled" /\ err.op # "KeyError")

\* The record's expiration_time is the ISO text of an instant.
IsTimestamp(v) == v.kind = "str" /\ v.s = "iso"
HasKey(td, k) == td.present /\ td.d[k] # Missing

\* C3: is_token_valid gives false for an absent record and for one without
\* expiration_time; for any other record it gives true exactly when the
\* clock is strictly before expiration_time, so false at the very instant
\* of expiry and after it.
C3_ValidIffStrictlyBeforeExpiry ==
    JustValidated =>
        /\ ~HasKey(token_data, "expiration_time") => valid = "False"
        /\ valid = "True" <=>
              /\ HasKey(token_data, "expiration_time")
              /\ IsTimestamp(token_data.d["expiration_time"])
              /\ now < token_data.d["expiration_time"].n
        /\ /\ HasKey(token_data, "expiration_time")
           /\ IsTimestamp(token_data.d["expiration_time"])
           /\ now >= token_data.d["expiration_time"].n
           => valid = "False"

\* The check is made at the very instant the stored token expires.
C3_Witness ==
    /\ JustValidated
    /\ HasKey(token_data, "expiration_time")
    /\ token_data.d["expiration_time"] = isoformat(now)
    /\ valid = "False"
    /\ pc = "acquire"

\* A stored record is malformed when it lacks access_token, lacks
\* expiration_time, or has an expiration_time that is no timestamp.
Malformed(td) ==
    /\ td.present
    /\ \/ ~HasKey(td, "access_token")
       \/ ~HasKey(td, "expiration_time")
       \/ ~IsTimestamp(td.d["expiration_time"])

\* C4: for every malformed record read from the token file the validity
\* check yields false, it does not fail with an error, and the run goes on
\* to acquire a new token instead of using the record.
C4_MalformedRecordIsInvalid ==
    JustValidated /\ Malformed(token_data) =>
        /\ valid = "False"
        /\ pc = "acquire"

\* C5: when the token file holds a record the validity check accepts, the
\* run asks the identity endpoint nothing, leaves the file as it is and uses
\* the stored access_token; when the file is missing, empty or holds a record
\* that is not valid, the run asks the identity endpoint exactly once and,
\* if that succeeds, the file holds the new record before any catalog
\* request is issued.
C5_TokenReuseWithinRun ==
    valid # "unset" /\ pc \notin {"validate", "acquire"} =>
        IF valid = "True"
        THEN /\ idCalls = 0
             /\ load_token_from_file(tokenFile).val = token_data
             /\ HasKey(token_data, "access_token")
             /\ pc # "token" => token = token_data.d["access_token"].s
        ELSE /\ idCalls = 1
             /\ how # "auth_failed" =>
                   /\ tokenFile = File(json_dump(token_data))
                   /\ token_data.d["access_token"] = JStr("N")
                   /\ pc # "token" => token = "N"

\* The identity endpoint answered 200 with an access_token.
IdSucceeded ==
    /\ idResp.kind = "http"
    /\ idResp.status = 200
    /\ idResp.body["access_token"] # Missing

\* C6: when token acquisition fails (another status than 200, a 200 answer
\* without access_token, a TLS error) the process ends with exit code 1
\* after that one identity request: no GET request is issued, no menu is
\* shown, and the token file and the output file are as they were.
C6_AuthFailureAbortsRun ==
    /\ [](idCalls <= 1)
    /\ [](idCalls = 1 /\ ~IdSucceeded =>
            /\ pc = "done"
            /\ how = "auth_failed"
            /\ exitCode = 1
            /\ gets = <<>>
            /\ depth = 0 /\ ~line.got
            /\ database_names = <<>>
            /\ ~outFile.written /\ outWrites = 0
            /\ load_token_from_file(tokenFile).val = token_data)
    /\ [][idCalls' = 1 /\ ~IdSucceeded' =>
            tokenFile' = tokenFile /\ outFile' = outFile]_vars

\* The identity endpoint answers 500 to a run that found an expired token.
C6_Witness ==
    /\ how = "auth_failed"
    /\ idResp.status = 500
    /\ valid = "False"
    /\ HasKey(token_data, "expiration_time")
    /\ tokenFile.exists

\* C7: with a token obtained, the process ends with exit code 0 when it
\* completes and when the user quits, and with another exit code than 0
\* when listing databases, listing tables or downloading the table failed.
C7_ExitCodes ==
    pc = "done" /\ token # "" =>
        /\ how \in {"completed", "quit"} => exitCode = 0
        /\ err.op \in {"fetch_data", "fetch_tables", "download_table"} =>
              how = "error" /\ exitCode # 0

(***************************************************************************)
(* Properties of display_menu_and_choose.                                  *)
(***************************************************************************)
\* The options of the menu that is showing.
Options == IF pc = "menu_db" THEN database_names ELSE tables
\* The line without its blanks.
NonBlank(w) == SelectSeq(w, LAMBDA c : c # " ")
IsQuitText(w) == NonBlank(w) \in {<<"q">>, <<"Q">>}
\* The line is the numeral of an integer k with 1 <= k <= n.
IsChoice(w, n) ==
    LET p == ParseInt(Strip(w)) IN p.ok /\ 1 <= p.v /\ p.v <= n
ChoiceOf(w) == ParseInt(Strip(w)).v
\* What the menu returned, once it has.
Returned == IF pc = "list_tables" THEN selected_database ELSE selected_table

\* C8: on a line that is no quit token the menu returns options[k-1] when
\* the line is an integer k with 1 <= k <= n, and otherwise prompts again
\* without returning.
C8_MenuReturnsFirstValidChoice ==
    [][InMenu /\ line.got /\ ~IsQuitText(line.s) =>
          IF IsChoice(line.s, Len(Options))
          THEN /\ pc' \in {"list_tables", "download"}
               /\ Returned' = Options[ChoiceOf(line.s)]
          ELSE /\ pc' = pc
               /\ ~line'.got
               /\ how' = "running"]_vars

\* C9: the quit token, in either letter case, at either menu and at any
\* depth of re-prompting, ends the process with exit code 0 as a quit, not
\* as an error; no request is issued and no output file is written then.
C9_QuitEndsProgram ==
    /\ [][InMenu /\ line.got /\ IsQuitText(line.s) =>
            /\ pc' = "done"
            /\ how' = "quit"
            /\ exitCode' = 0
            /\ gets' = gets
            /\ outFile' = outFile /\ outWrites' = outWrites]_vars
    /\ [](how = "quit" =>
            /\ pc = "done"
            /\ exitCode = 0
            /\ PageGets <= 0
            /\ ~outFile.written /\ outWrites = 0)

\* The user quits the table menu with "Q" after invalid inputs.
C9_Witness ==
    /\ how = "quit"
    /\ selected_database # ""
    /\ depth = RecursionLimit
    /\ Len(gets) = 2

(***************************************************************************)
(* The Token Store on its own: save_token_to_file and load_token_from_file *)
(* applied to any record and any earlier content of the file.              *)
(***************************************************************************)
InitStore ==
    /\ pc = "store"
    /\ now = 0
    /\ tokenFile \in TokenFiles
    /\ token_data = None
    /\ valid = "unset"
    /\ token = ""
    /\ idCalls = 0
    /\ idResp = NoResp
    /\ saved = None
    /\ gets = <<>>
    /\ database_names = <<>>
    /\ selected_database = ""
    /\ tables = <<>>
    /\ selected_table = ""
    /\ depth = 0
    /\ line = NoLine
    /\ api_url = NoUrl
    /\ all_records = <<>>
    /\ resps = <<>>
    /\ outFile = NoOut
    /\ outWrites = 0
    /\ exitCode = -1
    /\ how = "running"
    /\ err = NoErr
    /\ run = 1
    /\ issue = NoIssue

storeFrame ==
    <<now, valid, token, idCalls, idResp, issue, gets, menuVars, loadVars,
      endVars>>

\* save_token_to_file(r, path) for any record r.
StoreSave ==
    /\ pc \in {"store", "reloaded"}
    /\ \E d \in StoredDicts :
         /\ tokenFile' = save_token_to_file(Dict(d), tokenFile)
         /\ saved' = Dict(d)
    /\ pc' = "saved"
    /\ UNCHANGED <<token_data, storeFrame>>

\* load_token_from_file(path)
StoreLoad ==
    /\ pc \in {"store", "saved"}
    /\ LET r == load_token_from_file(tokenFile)
       IN  IF r.ok
           THEN /\ token_data' = r.val
                /\ pc' = IF pc = "store" THEN "loaded" ELSE "reloaded"
           ELSE /\ token_data' = token_data
                /\ pc' = IF pc = "store" THEN "unreadable" ELSE "unreadable_saved"
    /\ UNCHANGED <<tokenFile, saved, storeFrame>>

\* save_token_to_file(token_data, path) with the record just loaded.
StoreSaveLoaded ==
    /\ pc = "loaded"
    /\ tokenFile' = save_token_to_file(token_data, tokenFile)
    /\ saved' = token_data
    /\ pc' = "saved"
    /\ UNCHANGED <<token_data, storeFrame>>

NextStore == StoreSave \/ StoreLoad \/ StoreSaveLoaded

SpecStore == InitStore /\ [][NextStore]_vars

\* C10: a load that follows a save returns a record equal to the one saved,
\* whatever the file held before the save; so save(r) then load gives r, and
\* load, save of the loaded record, load gives the loaded record again.
C10_StoreRoundTrip ==
    /\ pc # "unreadable_saved"
    /\ pc = "reloaded" => token_data = saved

\* A full record was saved over a file that held another record, and read back.
C10_Witness ==
    /\ pc = "reloaded"
    /\ saved.present
    /\ \A k \in KeySet : saved.d[k] # Missing
    /\ saved.d["expires_in"].kind = "num"
    /\ token_data = saved

(***************************************************************************)
(* Properties of get_bearer_token.                                         *)
(***************************************************************************)
\* C11: after a 200 answer that carries access_token, the record the run
\* holds and the record in the token file are the server's record with every
\* field as sent, plus expiration_time = the ISO text of (acquisition time +
\* expires_in), where expires_in counts as 3600 when the server sent none.
C11_ExpirationIsIssuePlusLifetime ==
    idCalls = 1 /\ IdSucceeded =>
        /\ token_data.present
        /\ \A k \in KeySet \ {"expiration_time"} :
              token_data.d[k] = idResp.body[k]
        /\ token_data.d["expiration_time"] =
              isoformat(now + (IF idResp.body["expires_in"] = Missing
                               THEN 3600
                               ELSE idResp.body["expires_in"].n))
        /\ saved = token_data
        /\ load_token_from_file(tokenFile) = [ok |-> TRUE, val |-> token_data]

\* Tokens acquired at clock 1: one with expires_in = 2, and one without
\* expires_in or token_type, whose file then holds no such keys.
C11_Witness ==
    /\ idCalls = 1 /\ IdSucceeded /\ now = 1
    /\ \/ /\ idResp.body["expires_in"] = JNum(2)
          /\ token_data.d["expiration_time"] = isoformat(3)
       \/ /\ idResp.body["expires_in"] = Missing
          /\ token_data.d["token_type"] = Missing
          /\ token_data.d["expiration_time"] = isoformat(3601)
    /\ how = "completed"

\* C12: a failed acquisition is one of three kinds that can be told apart:
\* a 200 answer without access_token, an answer with another status, whose
\* error message carries that status and the response body, and a TLS
\* failure; none of them yields a token record.
C12_TokenErrorKinds ==
    idCalls = 1 /\ ~IdSucceeded =>
        /\ how = "auth_failed"
        /\ saved = None
        /\ idResp.kind = "ssl" <=> err.op = "token_ssl"
        /\ idResp.kind = "http" /\ idResp.status = 200 <=> err.op = "token_missing"
        /\ idResp.kind = "http" /\ idResp.status # 200 <=> err.op = "token_status"
        /\ err.op = "token_status" =>
              /\ err.status = idResp.status
              /\ err.body

(***************************************************************************)
(* Properties of the catalog requests and of the bearer token.             *)
(***************************************************************************)
\* The positions in the request log of the GETs for a kind of URL.
GetsOfKind(k) == {i \in 1..Len(gets) : gets[i][1].kind = k}

\* C13: listing the databases and listing the tables each issue exactly one
\* GET request, and when the answer is not 200 each ends with an error that
\* carries both the status and the body of the response, the same for both.
C13_CatalogFailureContract ==
    /\ Len(gets) >= 1 => GetsOfKind("databases") = {1}
    /\ Len(gets) >= 2 => GetsOfKind("tables") = {2}
    /\ err.op = "fetch_data" =>
          Len(gets) = 1 /\ err.status \in ErrorStatuses /\ err.body
    /\ err.op = "fetch_tables" =>
          Len(gets) = 2 /\ err.status \in ErrorStatuses /\ err.body

\* C14: once assigned, the variable token does not change; every catalog and
\* page request carries it, and it is the access_token of the record the run
\* holds; the identity endpoint is asked at most once, and never after a
\* request has been issued; a request that is rejected is the last request
\* of the run, and the error reaches the top level.
C14_TokenFixedForRun ==
    /\ [](\A i \in 1..Len(gets) : gets[i][2] = token)
    /\ [](gets # <<>> => token = token_data.d["access_token"].s)
    /\ [](idCalls <= 1)
    /\ [][token # "" => token' = token]_vars
    /\ [][gets # <<>> => idCalls' = idCalls /\ token_data' = token_data]_vars
    /\ [][how = "error" => gets' = gets /\ idCalls' = idCalls]_vars
    /\ [](err.status \in ErrorStatuses =>
            /\ pc = "done" /\ how = "error"
            /\ err.op = "fetch_data" => Len(gets) = 1
            /\ err.op = "fetch_tables" => Len(gets) = 2
            /\ err.op = "download_table" =>
                  /\ PageGets = Len(resps)
                  /\ resps[Len(resps)].status = err.status
                  /\ \A i \in 1..(Len(resps) - 1) : resps[i].status = 200)

\* A page request is rejected with 401 after the token was acquired in this
\* run and two pages were served.
C14_Witness ==
    /\ how = "error"
    /\ err = [op |-> "download_table", status |-> 401, reason |-> FALSE,
              body |-> TRUE]
    /\ idCalls = 1
    /\ Len(gets) = 5
    /\ token = "N"

(***************************************************************************)
(* Properties of the pagination loop.                                      *)
(***************************************************************************)
\* The response download_table received last.
LastResp == resps[Len(resps)]

\* C15: after a 200 response the loop ends successfully exactly when the
\* response has no X-Pagination header or the header's nextPageLink is absent
\* or empty; with a non-empty nextPageLink the loop goes on, the page's
\* records being empty or not, and its next request goes to that link.
C15_LastPageDetection ==
    /\ [][resps' # resps /\ LastResp'.status = 200 =>
            /\ pc' = "write" <=>
                  \/ ~LastResp'.header.present
                  \/ LastResp'.header.next = NoUrl
                  \/ LastResp'.header.next = EmptyUrl
            /\ pc' \in {"write", "download"}
            /\ how' = "running"
            /\ pc' = "download" => api_url' = LastResp'.header.next]_vars
    /\ [][resps # <<>> /\ gets' # gets =>
            gets' = Append(gets, <<LastResp.header.next, token>>)]_vars

\* An empty page named a next page, which was requested and was the last:
\* its header was there, with an empty nextPageLink.
C15_Witness ==
    /\ Len(resps) = 2
    /\ resps[1].body = <<>>
    /\ resps[1].header = [present |-> TRUE, next |-> LinkUrl("L1")]
    /\ PageUrls[2] = LinkUrl("L1")
    /\ resps[2].header = [present |-> TRUE, next |-> EmptyUrl]
    /\ pc = "write"

\* C16: when every response so far is 200 and the last one names no next
\* page, download_table ends and the run completes with the output file
\* written exactly once, holding all the records accumulated; and a download
\* under way always ends, in success or in an error, unless the server goes
\* on naming next pages.
C16_DownloadTerminates ==
    /\ ServedNPages ~>
          /\ how = "completed"
          /\ outWrites = 1
          /\ outFile.written
          /\ outFile.content = Concatenation(resps)
    /\ pc = "download" ~>
          \/ how \in {"completed", "error"}
          \/ pc = "download" /\ PageGets = MaxPages /\ CarriesLink(LastResp)
    /\ [](outWrites <= 1)

\* The server served as many pages as the bound allows, all empty, and the
\* run completed with an output file holding no records.
C16_Witness ==
    /\ how = "completed"
    /\ Len(resps) = MaxPages
    /\ outWrites = 1
    /\ outFile.written /\ outFile.content = <<>>

\* C17: when a response names as next page a URL download_table has already
\* requested, the download ends in an error with that response: the URL is
\* not requested again.
C17_NoRevisitOfVisitedUrl ==
    \A i \in 1..Len(resps) :
        /\ CarriesLink(resps[i])
        /\ \E j \in 1..i : PageUrls[j] = resps[i].header.next
        => /\ pc = "done"
           /\ how = "error"
           /\ PageGets = i

(***************************************************************************)
(* Properties of the run as a whole.                                       *)
(***************************************************************************)
\* The members of a list.
Members(l) == {l[i] : i \in 1..Len(l)}
\* The run holds a token record that was found valid or was just issued.
TokenObtained == token # "" /\ (valid = "True" \/ (idCalls = 1 /\ IdSucceeded))

\* C18: the first request is the database list and is issued with a token
\* obtained; the table list is requested second, only once a database is
\* selected, and for that database; the first page is requested third, only
\* once a table is selected, at the host, database and table selected; any
\* later request is a page; the output file is written only once the
\* download has drained, under the name {database}_{table}.json.
C18_OrderOfEvents ==
    /\ [](gets # <<>> =>
            /\ TokenObtained
            /\ gets[1][1] = [kind |-> "databases", host |-> "common",
                             a |-> "", b |-> ""])
    /\ [](selected_database # "" =>
            Len(gets) >= 1 /\ selected_database \in Members(database_names))
    /\ [](Len(gets) >= 2 =>
            /\ selected_database # ""
            /\ gets[2][1] = [kind |-> "tables", host |-> "common",
                             a |-> selected_database, b |-> ""])
    /\ [](selected_table # "" =>
            Len(gets) >= 2 /\ selected_table \in Members(tables))
    /\ [](Len(gets) >= 3 =>
            /\ selected_table # ""
            /\ gets[3][1] =
                  [kind |-> "table",
                   host |-> IF selected_database = "VCdb" THEN "vcdb" ELSE "pcdb",
                   a |-> selected_database, b |-> selected_table])
    /\ [](\A i \in 4..Len(gets) : gets[i][1].kind = "link")
    /\ [](outFile.written =>
            /\ ServedNPages /\ PageGets = Len(resps)
            /\ outFile.name = <<selected_database, "_", selected_table, ".json">>)
    /\ [][selected_database # "" => selected_database' = selected_database]_vars
    /\ [][selected_table # "" => selected_table' = selected_table]_vars
    /\ [][outFile' # outFile => pc = "write" /\ gets' = gets]_vars

\* The second database and the second table were chosen and the table, two
\* pages long, was written to PCdb_Model.json.
C18_Witness ==
    /\ how = "completed"
    /\ database_names = <<"VCdb", "PCdb">> /\ selected_database = "PCdb"
    /\ tables = <<"Make", "Model">> /\ selected_table = "Model"
    /\ Len(gets) = 4
    /\ gets[3][1].host = "pcdb"
    /\ outFile.name = <<"PCdb", "_", "Model", ".json">>

(***************************************************************************)
(* Properties of the token across runs.                                    *)
(***************************************************************************)
\* An earlier run acquired a token and saved it, and this run has not.
PriorIssue == issue.run >= 1 /\ issue.run < run
\* The instant t + expires_in of the token last issued.
IssueExpiry ==
    issue.at + (IF saved.d["expires_in"] = Missing
                THEN 3600 ELSE saved.d["expires_in"].n)

\* A run that follows one which acquired and saved a token reads the file
\* without error and finds the token valid exactly when it starts strictly
\* before t + expires_in; if so it asks the identity endpoint nothing, leaves
\* the file alone and uses the saved access_token.
ReusesUnexpiredToken ==
    /\ PriorIssue => how # "unhandled"
    /\ PriorIssue /\ valid # "unset" /\ idCalls = 0 =>
          valid = IF now < IssueExpiry THEN "True" ELSE "False"
    /\ PriorIssue /\ valid = "True" =>
          /\ idCalls = 0
          /\ token_data = saved
          /\ tokenFile = File(json_dump(saved))
          /\ pc # "token" => token = saved.d["access_token"].s

\* The run found the stored token expired and has been to the identity
\* endpoint.
AskedAfterExpiry ==
    /\ run > 1 /\ issue.run >= 1
    /\ valid = "False"
    /\ pc \notin {"validate", "acquire"}

\* C19 as stated: a later run that starts before t + expires_in reuses the
\* saved token without an identity request, however the earlier run ended;
\* a later run that starts at or after t + expires_in makes one identity
\* request and overwrites the token file.
C19_AsStated ==
    /\ ReusesUnexpiredToken
    /\ AskedAfterExpiry =>
          /\ idCalls = 1
          /\ issue.run = run
          /\ tokenFile = File(json_dump(token_data))

\* C19: a later run that starts before t + expires_in reuses the saved
\* token without an identity request, however the earlier run ended; a later
\* run that starts at or after t + expires_in makes one identity request
\* and, when that request succeeds, overwrites the token file with the new
\* record; when the request fails the file keeps the earlier record.
C19_TokenReuseAcrossRuns ==
    /\ ReusesUnexpiredToken
    /\ AskedAfterExpiry =>
          /\ idCalls = 1
          /\ IF IdSucceeded
             THEN /\ issue = [at |-> now, run |-> run]
                  /\ token_data = saved
                  /\ tokenFile = File(json_dump(token_data))
             ELSE /\ how = "auth_failed"
                  /\ issue.run < run
                  /\ tokenFile = File(json_dump(saved))

\* A token was issued at clock 0 for one second; the next run starts at
\* clock 1, the instant of expiry, and is refused a new token.
C19_Witness ==
    /\ run = 2
    /\ issue = [at |-> 0, run |-> 1]
    /\ saved.d["expires_in"] = JNum(1)
    /\ now = 1
    /\ valid = "False"
    /\ idCalls = 1
    /\ how = "auth_failed"

====
